---- MODULE Spec2Model ----
(***************************************************************************)
(* RefundRelayerForMessagesFromParachain: the signed extension that        *)
(* refunds a relayer for a transaction that delivered new messages, alone  *)
(* or in a utility.batchAll with the parachain head and relay chain header *)
(* (bin/runtime-common/src/refund_relayer_extension.rs).                   *)
(*                                                                         *)
(* The chain state is the storage the extension reads (bridge GRANDPA,     *)
(* parachains and messages pallets) and writes (relayers pallet).  One     *)
(* transaction at a time goes through validate, pre_dispatch, dispatch and *)
(* post_dispatch.                                                          *)
(***************************************************************************)
EXTENDS Integers, Sequences, FiniteSets, TLC

\* ------------------------------------------------------------------ bounds

\* Largest block number / message nonce a call may claim.
MaxNumber == 2
\* Number of transactions a behaviour processes.
MaxTxs == 2

\* ------------------------------------------------------------ configuration

\* PID::get(), the parachain the extension is configured for.
TestParachain == 1000
\* LID::get(), the lane the extension is configured for.
TestLaneId == "TEST_LANE_ID"
OtherLaneId == "OTHER_LANE_ID"

ParaIds == {TestParachain, TestParachain + 1}
Lanes == {TestLaneId, OtherLaneId}
Relayers == {"relayer0", "relayer1"}
Numbers == 1..MaxNumber

\* Option<T>: None is the empty sequence, Some(x) the singleton.
None == <<>>
Some(x) == <<x>>
IsSome(o) == o # None
Unwrap(o) == o[1]

\* ------------------------------------------------------------------- calls

SubmitFinalityProof(n) == [kind |-> "submit_finality_proof", number |-> n]
SubmitParachainHeads(n, ps) ==
    [kind |-> "submit_parachain_heads", at_relay_block |-> n, parachains |-> ps]
ReceiveMessagesProof(l, n) ==
    [kind |-> "receive_messages_proof", lane |-> l, nonces_end |-> n]
OtherCall == [kind |-> "other"]
BatchAll(cs) == [kind |-> "batch_all", calls |-> cs]

IsBatchAll(call) == call.kind = "batch_all"

\* ------------------------------------------------------------------- state

VARIABLES
    bestFinalized,  \* pallet_bridge_grandpa::BestFinalized: Option<number>
    parasInfo,      \* pallet_bridge_parachains::ParasInfo: ParaId -> Option<number>
    inboundLanes,   \* pallet_bridge_messages::InboundLanes: lane -> last delivered nonce
    rewards,        \* pallet_bridge_relayers rewards: <<relayer, lane>> -> balance
    pc,             \* position of the transaction in the pipeline
    tx,             \* the transaction in the pipeline
    validity,       \* what validate returned for it
    pre,            \* what pre_dispatch returned for it
    result,         \* DispatchResult of its dispatch
    post_info,      \* PostDispatchInfo of its dispatch
    before,         \* tracker values read right before its dispatch
    regs,           \* the register_relayer_reward calls made so far, each with
                    \* the number, length and tip of the transaction it is for
    txs             \* number of transactions processed so far

vars == <<bestFinalized, parasInfo, inboundLanes, rewards, pc, tx, validity,
          pre, result, post_info, before, regs, txs>>


\* Result<T, E>
Ok(v) == [tag |-> "Ok", val |-> v]
Err(e) == [tag |-> "Err", err |-> e]
IsErr(r) == r.tag = "Err"

\* TransactionValidityError::Invalid(InvalidTransaction::Stale)
Stale == "InvalidTransaction::Stale"
\* ValidTransaction::default()
ValidTransactionDefault == "ValidTransaction::default()"

\* ----------------------------------------------------------------- CallType

ExpectedRelayChainState(n) == [best_block_number |-> n]
ExpectedParachainState(n) == [at_relay_block_number |-> n]
MessagesState(n) == [best_nonce |-> n]

AllFinalityAndDelivery(r, p, m) ==
    [variant |-> "AllFinalityAndDelivery", relay |-> r, para |-> p, msgs |-> m]
ParachainFinalityAndDelivery(p, m) ==
    [variant |-> "ParachainFinalityAndDelivery", para |-> p, msgs |-> m]
Delivery(m) == [variant |-> "Delivery", msgs |-> m]

PreDispatchData(who, ct) == [relayer |-> who, call_type |-> ct]

pre_dispatch_messages_state(call_type) == call_type.msgs

\* ------------------------------------------------- state snapshot accessors

relay_chain_state ==
    IF IsSome(bestFinalized)
    THEN Some(ExpectedRelayChainState(Unwrap(bestFinalized)))
    ELSE None

parachain_state ==
    IF IsSome(parasInfo[TestParachain])
    THEN Some(ExpectedParachainState(Unwrap(parasInfo[TestParachain])))
    ELSE None

messages_state == Some(MessagesState(inboundLanes[TestLaneId]))

\* ------------------------------------------------- obsolete-transaction guard

\* BE::pre_dispatch on one nested call: the header or the messages it brings
\* are not ahead of what the pallet already has.
reject_obsolete(who, call, info, len) ==
    CASE call.kind = "submit_finality_proof" ->
            IF IsSome(bestFinalized) /\ Unwrap(bestFinalized) >= call.number
            THEN Err(Stale) ELSE Ok(<<>>)
      [] call.kind = "submit_parachain_heads" ->
            IF /\ Len(call.parachains) = 1
               /\ IsSome(parasInfo[call.parachains[1]])
               /\ Unwrap(parasInfo[call.parachains[1]]) >= call.at_relay_block
            THEN Err(Stale) ELSE Ok(<<>>)
      [] call.kind = "receive_messages_proof" ->
            IF call.nonces_end <= inboundLanes[call.lane]
            THEN Err(Stale) ELSE Ok(<<>>)
      [] OTHER -> Ok(<<>>)

\* ------------------------------------------------------------------ validate

\* validate_nested, had the loop returned after its first nested call
validate_nested_first_only(who, calls, info, len, i) ==
    IF i > Len(calls) THEN Ok(ValidTransactionDefault)
    ELSE IF IsErr(reject_obsolete(who, calls[i], info, len))
         THEN reject_obsolete(who, calls[i], info, len)
         ELSE Ok(ValidTransactionDefault)

RECURSIVE validate_nested(_, _, _, _, _)
\* the `for nested_call in calls` loop of validate, from the i-th call on
validate_nested(who, calls, info, len, i) ==
    IF i > Len(calls) THEN Ok(ValidTransactionDefault)
    ELSE IF IsErr(reject_obsolete(who, calls[i], info, len))
         THEN reject_obsolete(who, calls[i], info, len)
         ELSE validate_nested(who, calls, info, len, i + 1)

\* validate, had it not looked into the batch
validate_unguarded(who, call, info, len) == Ok(ValidTransactionDefault)

\* validate, had the guard been run on a call that is not a batch as well
validate_every_call(who, call, info, len) ==
    IF IsBatchAll(call)
    THEN validate_nested(who, call.calls, info, len, 1)
    ELSE validate_nested(who, <<call>>, info, len, 1)

\* validate, had a call that is not a batch been refused
validate_batches_only(who, call, info, len) ==
    IF IsBatchAll(call)
    THEN validate_nested(who, call.calls, info, len, 1)
    ELSE Err(Stale)

validate(who, call, info, len) ==
    IF IsBatchAll(call)
    THEN validate_nested(who, call.calls, info, len, 1)
    ELSE Ok(ValidTransactionDefault)

\* --------------------------------------------------------------- classifier

\* extract_expected_relay_chain_state, had it read the best finalized header
\* of the pallet
extract_expected_relay_chain_state_from_pallet(call) ==
    IF call.kind = "submit_finality_proof"
    THEN relay_chain_state
    ELSE None

extract_expected_relay_chain_state(call) ==
    IF call.kind = "submit_finality_proof"
    THEN Some(ExpectedRelayChainState(call.number))
    ELSE None

\* extract_expected_parachain_state, had it looked at the first parachain only
extract_expected_parachain_state_first_only(call) ==
    IF call.kind = "submit_parachain_heads"
    THEN IF call.parachains = <<>> \/ call.parachains[1] # TestParachain
         THEN None
         ELSE Some(ExpectedParachainState(call.at_relay_block))
    ELSE None

extract_expected_parachain_state(call) ==
    IF call.kind = "submit_parachain_heads"
    THEN IF Len(call.parachains) # 1 \/ call.parachains[1] # TestParachain
         THEN None
         ELSE Some(ExpectedParachainState(call.at_relay_block))
    ELSE None

\* extract_messages_state, had it taken the nonce the proof ends at
extract_messages_state_from_proof(call) ==
    IF call.kind = "receive_messages_proof"
    THEN IF TestLaneId # call.lane
         THEN None
         ELSE Some(MessagesState(call.nonces_end))
    ELSE None

extract_messages_state(call) ==
    IF call.kind = "receive_messages_proof"
    THEN IF TestLaneId # call.lane
         THEN None
         ELSE Some(MessagesState(inboundLanes[call.lane]))
    ELSE None

\* parse_call_type, had a batch of three that does not match been tried as
\* the batch of two that its last two calls make
parse_call_type_fall_through(call) ==
    IF IsBatchAll(call)
    THEN LET n == Len(call.calls)
             r == IF n = 3 THEN extract_expected_relay_chain_state(call.calls[1]) ELSE None
             p == IF n >= 2 THEN extract_expected_parachain_state(call.calls[n - 1]) ELSE None
             m == IF n >= 2 THEN extract_messages_state(call.calls[n]) ELSE None
         IN IF n = 3 /\ r # None /\ p # None /\ m # None
            THEN Some(AllFinalityAndDelivery(Unwrap(r), Unwrap(p), Unwrap(m)))
            ELSE IF n \in {2, 3} /\ p # None /\ m # None
            THEN Some(ParachainFinalityAndDelivery(Unwrap(p), Unwrap(m)))
            ELSE None
    ELSE LET m == extract_messages_state(call)
         IN IF m = None THEN None ELSE Some(Delivery(Unwrap(m)))

parse_call_type(call) ==
    IF IsBatchAll(call)
    THEN IF Len(call.calls) = 3
         THEN LET r == extract_expected_relay_chain_state(call.calls[1])
                  p == extract_expected_parachain_state(call.calls[2])
                  m == extract_messages_state(call.calls[3])
              IN IF r = None \/ p = None \/ m = None THEN None
                 ELSE Some(AllFinalityAndDelivery(Unwrap(r), Unwrap(p), Unwrap(m)))
         ELSE IF Len(call.calls) = 2
         THEN LET p == extract_expected_parachain_state(call.calls[1])
                  m == extract_messages_state(call.calls[2])
              IN IF p = None \/ m = None THEN None
                 ELSE Some(ParachainFinalityAndDelivery(Unwrap(p), Unwrap(m)))
         ELSE None
    ELSE LET m == extract_messages_state(call)
         IN IF m = None THEN None ELSE Some(Delivery(Unwrap(m)))

\* -------------------------------------------------------------- pre_dispatch

\* pre_dispatch, had it parsed the call first and checked only the calls it
\* recognizes
pre_dispatch_parse_first(who, call, info, len) ==
    LET call_type == parse_call_type(call)
    IN IF call_type = None THEN Ok(None)
       ELSE IF IsErr(validate(who, call, info, len))
            THEN validate(who, call, info, len)
            ELSE Ok(Some(PreDispatchData(who, Unwrap(call_type))))

\* pre_dispatch, had it relied on what validate returned when the pool ran it
pre_dispatch_trusting_pool(who, call, info, len) ==
    IF IsErr(validity)
    THEN validity
    ELSE LET call_type == parse_call_type(call)
         IN Ok(IF call_type = None THEN None
               ELSE Some(PreDispatchData(who, Unwrap(call_type))))

pre_dispatch(who, call, info, len) ==
    IF IsErr(validate(who, call, info, len))
    THEN validate(who, call, info, len)
    ELSE LET call_type == parse_call_type(call)
         IN Ok(IF call_type = None THEN None
               ELSE Some(PreDispatchData(who, Unwrap(call_type))))

\* ------------------------------------------------------------- reward engine

\* DispatchInfo / PostDispatchInfo of the transactions of the model
DispatchInfo(w) == [weight |-> w, pays_fee |-> "Yes"]
PostDispatchInfo(aw) == [actual_weight |-> aw, pays_fee |-> "Yes"]

\* FEE::compute_fee: the fee actually charged for the call: the length fee
\* and the fee of the weight the call used, plus the tip; the tip alone when
\* the call does not pay.
compute_fee(info, post, len, tip) ==
    LET weight == IF IsSome(post.actual_weight) /\ Unwrap(post.actual_weight) < info.weight
                  THEN Unwrap(post.actual_weight) ELSE info.weight
    IN IF info.pays_fee = "Yes" /\ post.pays_fee = "Yes"
       THEN len + weight + tip
       ELSE tip

\* RelayersPallet::register_relayer_reward(lane, relayer, reward) on ledger
register_relayer_reward(ledger, lane, relayer, reward) ==
    [ledger EXCEPT ![<<relayer, lane>>] = @ + reward]

\* ------------------------------------------------------------- post_dispatch

\* `match pre { Some(Some(pre)) => ..., _ => return Ok(()) }`
not_bridge_transaction(pre_opt) ==
    ~(IsSome(pre_opt) /\ IsSome(Unwrap(pre_opt)))

\* transaction_has_failed, had the dispatch result been ignored
transaction_has_failed_ignored(res) == FALSE

\* `if result.is_err()`
transaction_has_failed(res) == IsErr(res)

\* relay_chain_state_not_updated, had an uninitialized relay chain pallet
\* counted against every call type
relay_chain_state_required(call_type) ==
    \/ relay_chain_state = None
    \/ /\ call_type.variant = "AllFinalityAndDelivery"
       /\ relay_chain_state # Some(call_type.relay)

\* relay_chain_state_not_updated, had only the uninitialized pallet counted
relay_chain_state_missing(call_type) ==
    /\ call_type.variant = "AllFinalityAndDelivery"
    /\ relay_chain_state = None

\* "check if relay chain state has been updated"
relay_chain_state_not_updated(call_type) ==
    /\ call_type.variant = "AllFinalityAndDelivery"
    /\ relay_chain_state # Some(call_type.relay)

\* parachain_state_not_updated, had the match missed AllFinalityAndDelivery
parachain_state_not_updated_two_calls(call_type) ==
    /\ call_type.variant = "ParachainFinalityAndDelivery"
    /\ parachain_state # Some(call_type.para)

\* parachain_state_not_updated, had a tracker that is at or past the expected
\* number counted as updated
parachain_state_behind(call_type) ==
    /\ call_type.variant \in {"AllFinalityAndDelivery", "ParachainFinalityAndDelivery"}
    /\ \/ parachain_state = None
       \/ Unwrap(parachain_state).at_relay_block_number
             < call_type.para.at_relay_block_number

\* "check if parachain state has been updated"
parachain_state_not_updated(call_type) ==
    /\ call_type.variant \in {"AllFinalityAndDelivery", "ParachainFinalityAndDelivery"}
    /\ parachain_state # Some(call_type.para)

\* messages_not_delivered, had only a lane that went back counted
messages_not_delivered_behind(call_type) ==
    Unwrap(messages_state).best_nonce < pre_dispatch_messages_state(call_type).best_nonce

\* messages_not_delivered, had the check been left out
messages_check_skipped(call_type) == FALSE

\* "check if messages have been delivered"
messages_not_delivered(call_type) ==
    messages_state = Some(pre_dispatch_messages_state(call_type))

\* relayer_reward, had the tip of the transaction been compensated
relayer_reward_with_tip(info, post, len) == compute_fee(info, post, len, tx.tip)

\* "compute the relayer reward", with `let tip = Zero::zero()`
relayer_reward(info, post, len) == compute_fee(info, post, len, 0)

\* reward_account, had the reward gone to one fixed account
reward_account_fixed(relayer) == [lane |-> TestLaneId, relayer |-> "relayer0"]

\* reward_account, had the reward been registered on the other lane
reward_account_other_lane(relayer) == [lane |-> OtherLaneId, relayer |-> relayer]

\* who gets the reward, and on which lane
reward_account(relayer) == [lane |-> TestLaneId, relayer |-> relayer]

\* post_dispatch_refund, had the reward been registered once for the delivery
\* and once for the finality calls of a batch
post_dispatch_refund_twice(data, info, post, len, res) ==
    IF transaction_has_failed(res) THEN <<>>
    ELSE IF relay_chain_state_not_updated(data.call_type) THEN <<>>
    ELSE IF parachain_state_not_updated(data.call_type) THEN <<>>
    ELSE IF messages_not_delivered(data.call_type) THEN <<>>
    ELSE LET r == [lane |-> reward_account(data.relayer).lane,
                   relayer |-> reward_account(data.relayer).relayer,
                   reward |-> relayer_reward(info, post, len)]
         IN IF data.call_type.variant = "Delivery" THEN <<r>> ELSE <<r, r>>

\* post_dispatch_refund, had it left out a relayer the ledger already holds a
\* reward for
post_dispatch_refund_once(data, info, post, len, res) ==
    IF transaction_has_failed(res) THEN <<>>
    ELSE IF relay_chain_state_not_updated(data.call_type) THEN <<>>
    ELSE IF parachain_state_not_updated(data.call_type) THEN <<>>
    ELSE IF messages_not_delivered(data.call_type) THEN <<>>
    ELSE IF rewards[<<reward_account(data.relayer).relayer,
                      reward_account(data.relayer).lane>>] > 0 THEN <<>>
    ELSE << [lane |-> reward_account(data.relayer).lane,
             relayer |-> reward_account(data.relayer).relayer,
             reward |-> relayer_reward(info, post, len)] >>

\* post_dispatch once `pre` is known to hold the data of a bridge
\* transaction: the register_relayer_reward calls it makes
post_dispatch_refund(data, info, post, len, res) ==
    IF transaction_has_failed(res) THEN <<>>
    ELSE IF relay_chain_state_not_updated(data.call_type) THEN <<>>
    ELSE IF parachain_state_not_updated(data.call_type) THEN <<>>
    ELSE IF messages_not_delivered(data.call_type) THEN <<>>
    ELSE << [lane |-> reward_account(data.relayer).lane,
             relayer |-> reward_account(data.relayer).relayer,
             reward |-> relayer_reward(info, post, len)] >>

\* post_dispatch, had a missing `pre` been read as a delivery by the
\* default account
post_dispatch_default_pre(pre_opt, info, post, len, res) ==
    post_dispatch_refund(
        IF not_bridge_transaction(pre_opt)
        THEN PreDispatchData("relayer0", Delivery(MessagesState(0)))
        ELSE Unwrap(Unwrap(pre_opt)),
        info, post, len, res)

\* post_dispatch: the register_relayer_reward calls it makes (it always
\* returns Ok(())).
post_dispatch(pre_opt, info, post, len, res) ==
    IF not_bridge_transaction(pre_opt) THEN <<>>
    ELSE post_dispatch_refund(Unwrap(Unwrap(pre_opt)), info, post, len, res)

\* post_dispatch_return, had a transaction that is not refunded been reported
\* as an invalid one
post_dispatch_return_strict(pre_opt, info, post, len, res) ==
    IF post_dispatch(pre_opt, info, post, len, res) = <<>>
    THEN Err("InvalidTransaction::Custom")
    ELSE Ok(<<>>)

\* what post_dispatch returns: the value of each of its `return Ok(())` and
\* of the final `Ok(())`
post_dispatch_return(pre_opt, info, post, len, res) ==
    IF not_bridge_transaction(pre_opt) THEN Ok(<<>>)
    ELSE IF transaction_has_failed(res) THEN Ok(<<>>)
    ELSE IF relay_chain_state_not_updated(Unwrap(Unwrap(pre_opt)).call_type) THEN Ok(<<>>)
    ELSE IF parachain_state_not_updated(Unwrap(Unwrap(pre_opt)).call_type) THEN Ok(<<>>)
    ELSE IF messages_not_delivered(Unwrap(Unwrap(pre_opt)).call_type) THEN Ok(<<>>)
    ELSE Ok(<<>>)

\* pre_dispatch of the extension was not run for the transaction (it is not
\* a signed one): post_dispatch gets no `pre`
NotRun == [tag |-> "NotRun"]

\* the `pre: Option<Self::Pre>` post_dispatch is given
PreArgument(p) == IF p.tag = "Ok" THEN Some(p.val) ELSE None

RECURSIVE register_all(_, _)
register_all(ledger, rs) ==
    IF rs = <<>> THEN ledger
    ELSE register_all(
            register_relayer_reward(ledger, rs[1].lane, rs[1].relayer, rs[1].reward),
            Tail(rs))

\* ------------------------------------------------------------------ dispatch

\* What the bridge pallets do with one call.  outcome: "fail" (the call is
\* rejected, e.g. its proof is wrong), "skip" (accepted, nothing imported) or
\* "apply"; k: the nonce the delivery gets to, when it delivers only some of
\* its messages.  st is [bf, pi, il]: the three trackers.
dispatch_call(call, st, outcome, k) ==
    IF outcome = "fail" THEN [ok |-> FALSE, st |-> st]
    ELSE IF outcome = "skip" THEN [ok |-> TRUE, st |-> st]
    ELSE CASE call.kind = "submit_finality_proof" ->
                 IF st.bf = None THEN [ok |-> FALSE, st |-> st]
                 ELSE IF call.number > Unwrap(st.bf)
                      THEN [ok |-> TRUE, st |-> [st EXCEPT !.bf = Some(call.number)]]
                      ELSE [ok |-> TRUE, st |-> st]
           [] call.kind = "submit_parachain_heads" ->
                 [ok |-> TRUE,
                  st |-> [st EXCEPT !.pi =
                     [p \in ParaIds |->
                        IF /\ \E i \in 1..Len(call.parachains) : call.parachains[i] = p
                           /\ (st.pi[p] = None \/ Unwrap(st.pi[p]) < call.at_relay_block)
                        THEN Some(call.at_relay_block)
                        ELSE st.pi[p]]]]
           [] call.kind = "receive_messages_proof" ->
                 IF call.nonces_end > st.il[call.lane]
                 THEN [ok |-> TRUE,
                       st |-> [st EXCEPT !.il[call.lane] =
                                 IF k > st.il[call.lane] /\ k < call.nonces_end
                                 THEN k ELSE call.nonces_end]]
                 ELSE [ok |-> TRUE, st |-> st]
           [] OTHER -> [ok |-> TRUE, st |-> st]

RECURSIVE dispatch_batch(_, _, _, _, _)
\* utility.batchAll: the calls in order, from the i-th on; the first failure
\* fails the batch
dispatch_batch(calls, st, outcomes, k, i) ==
    IF i > Len(calls) THEN [ok |-> TRUE, st |-> st]
    ELSE LET r == dispatch_call(calls[i], st, outcomes[i], k)
         IN IF ~r.ok THEN r
            ELSE dispatch_batch(calls, r.st, outcomes, k, i + 1)

\* the dispatch of a transaction's call: all of it or nothing
dispatch(call, st, outcomes, k) ==
    LET r == IF IsBatchAll(call)
             THEN dispatch_batch(call.calls, st, outcomes, k, 1)
             ELSE dispatch_call(call, st, outcomes[1], k)
    IN IF r.ok THEN r ELSE [ok |-> FALSE, st |-> st]

\* ------------------------------------------------------------- transactions

\* a parachain heads submission for the configured parachain alone, for
\* another one alone, and for both
ParachainLists ==
    {<<TestParachain>>, <<TestParachain + 1>>, <<TestParachain, TestParachain + 1>>}

FinalityCalls == {SubmitFinalityProof(n) : n \in Numbers}
ParachainsCalls == {SubmitParachainHeads(n, ps) : n \in Numbers, ps \in ParachainLists}
MessagesCalls == {ReceiveMessagesProof(l, n) : l \in Lanes, n \in Numbers}
NestedCalls == FinalityCalls \cup ParachainsCalls \cup MessagesCalls \cup {OtherCall}

\* the calls of the tests: message_delivery_call,
\* parachain_finality_and_delivery_batch_call, all_finality_and_delivery_batch_call
message_delivery_call(n) == ReceiveMessagesProof(TestLaneId, n)
submit_parachain_head_call(n) == SubmitParachainHeads(n, <<TestParachain>>)
submit_relay_header_call(n) == SubmitFinalityProof(n)
parachain_finality_and_delivery_batch_call(p, n) ==
    BatchAll(<<submit_parachain_head_call(p), message_delivery_call(n)>>)
all_finality_and_delivery_batch_call(r, p, n) ==
    BatchAll(<<submit_relay_header_call(r), submit_parachain_head_call(p),
               message_delivery_call(n)>>)

DeliveryCalls == {message_delivery_call(n) : n \in Numbers}
TwoCallBatches ==
    {parachain_finality_and_delivery_batch_call(p, n) : p \in Numbers, n \in Numbers}
ThreeCallBatches ==
    {all_finality_and_delivery_batch_call(r, p, n) :
        r \in Numbers, p \in Numbers, n \in Numbers}

\* calls of other shapes: the finality calls on their own, a call of
\* another pallet, and batches of fewer calls
OtherShapes ==
    {submit_relay_header_call(MaxNumber),
     submit_parachain_head_call(MaxNumber),
     OtherCall,
     BatchAll(<<message_delivery_call(MaxNumber)>>),
     BatchAll(<<>>)}

Calls == DeliveryCalls \cup TwoCallBatches \cup ThreeCallBatches \cup OtherShapes

\* dispatch_info() of the tests: the weight of the call
InfoWeight == 2

\* who signs, how long the transaction is and the tip it declares
Signers ==
    {[who |-> "relayer0", len |-> 1, tip |-> 0],
     [who |-> "relayer1", len |-> 1, tip |-> 3]}

Transaction(s, call) ==
    [who |-> s.who, call |-> call, info |-> DispatchInfo(InfoWeight),
     len |-> s.len, tip |-> s.tip]

Txs == {Transaction(s, call) : s \in Signers, call \in Calls}

\* number of calls the pallets dispatch for a call
CallCount(call) == IF IsBatchAll(call) THEN Len(call.calls) ELSE 1

Outcomes == {"fail", "skip", "apply"}
\* post_dispatch_info() of the tests
PostInfos == {PostDispatchInfo(None)}

NoTx == [who |-> "nobody", call |-> OtherCall, info |-> DispatchInfo(InfoWeight),
         len |-> 0, tip |-> 0]
NoSnapshot == [relay |-> None, para |-> None, nonce |-> 0]

\* ---------------------------------------------------------------------- Init

\* a finality tracker is not initialized, or at the genesis header
TrackerValues == {None, Some(0)}

Init ==
    /\ bestFinalized \in TrackerValues
    /\ parasInfo \in [ParaIds -> TrackerValues]
    /\ parasInfo[TestParachain + 1] = None
    /\ inboundLanes = [l \in Lanes |-> 0]
    /\ rewards = [a \in Relayers \X Lanes |-> 0]
    /\ pc = "idle"
    /\ tx = NoTx
    /\ validity = Ok(ValidTransactionDefault)
    /\ pre = Ok(None)
    /\ result = Ok(<<>>)
    /\ post_info = PostDispatchInfo(None)
    /\ before = NoSnapshot
    /\ regs = <<>>
    /\ txs = 0

\* ------------------------------------------------------------------- actions

\* The transaction pool validates a transaction.
Validate(t) ==
    /\ pc = "idle"
    /\ txs < MaxTxs
    /\ tx' = t
    /\ validity' = validate(t.who, t.call, t.info, t.len)
    /\ pc' = "validated"
    /\ txs' = txs + 1
    /\ UNCHANGED <<bestFinalized, parasInfo, inboundLanes, rewards, pre, result,
                   post_info, before, regs>>

\* PreDispatch, had pre_dispatch registered the reward of a transaction it
\* recognizes right away
PreDispatchRefundingEarly ==
    /\ pc = "validated"
    /\ pre' = pre_dispatch(tx.who, tx.call, tx.info, tx.len)
    /\ pc' = IF IsErr(pre') THEN "rejected" ELSE "pre_dispatched"
    /\ rewards' = IF pre'.tag = "Ok" /\ pre'.val # None
                  THEN register_relayer_reward(rewards, TestLaneId, tx.who,
                                               relayer_reward(tx.info, post_info, tx.len))
                  ELSE rewards
    /\ UNCHANGED <<bestFinalized, parasInfo, inboundLanes, tx, validity,
                   result, post_info, before, regs, txs>>

\* The block executor runs pre_dispatch of the transaction; an error drops it.
PreDispatch ==
    /\ pc = "validated"
    /\ pre' = pre_dispatch(tx.who, tx.call, tx.info, tx.len)
    /\ pc' = IF IsErr(pre') THEN "rejected" ELSE "pre_dispatched"
    /\ UNCHANGED <<bestFinalized, parasInfo, inboundLanes, rewards, tx, validity,
                   result, post_info, before, regs, txs>>

\* what the dispatch of call may do to the trackers st
DispatchResults(call, st) ==
    {dispatch(call, st, outcomes, k) :
        outcomes \in [1..CallCount(call) -> Outcomes], k \in Numbers}

\* The call is dispatched by the pallets.
Dispatch(r, post) ==
    /\ pc = "pre_dispatched"
    /\ bestFinalized' = r.st.bf
    /\ parasInfo' = r.st.pi
    /\ inboundLanes' = r.st.il
    /\ result' = IF r.ok THEN Ok(<<>>) ELSE Err("DispatchError")
    /\ before' = [relay |-> bestFinalized, para |-> parasInfo[TestParachain],
                  nonce |-> inboundLanes[TestLaneId]]
    /\ post_info' = post
    /\ pc' = "dispatched"
    /\ UNCHANGED <<rewards, tx, validity, pre, regs, txs>>

\* The block executor runs post_dispatch with what pre_dispatch returned; an
\* error of post_dispatch fails the transaction.
PostDispatch ==
    /\ pc = "dispatched"
    /\ LET calls == post_dispatch(PreArgument(pre), tx.info, post_info, tx.len, result)
       IN /\ rewards' = register_all(rewards, calls)
          /\ regs' = regs \o [i \in 1..Len(calls) |->
                        [lane |-> calls[i].lane, relayer |-> calls[i].relayer,
                         reward |-> calls[i].reward,
                         tx |-> txs, len |-> tx.len, tip |-> tx.tip]]
    /\ pc' = IF IsErr(post_dispatch_return(PreArgument(pre), tx.info, post_info,
                                         tx.len, result))
             THEN "failed" ELSE "done"
    /\ UNCHANGED <<bestFinalized, parasInfo, inboundLanes, tx, validity, pre,
                   result, post_info, before, txs>>

\* The pipeline is done with the transaction, applied or dropped, and what
\* the hooks returned for it is destroyed.
Finish ==
    /\ pc \in {"rejected", "done"}
    /\ pc' = "idle"
    /\ tx' = NoTx
    /\ validity' = Ok(ValidTransactionDefault)
    /\ pre' = Ok(None)
    /\ result' = Ok(<<>>)
    /\ post_info' = PostDispatchInfo(None)
    /\ before' = NoSnapshot
    /\ UNCHANGED <<bestFinalized, parasInfo, inboundLanes, rewards, regs, txs>>

Next ==
    \/ pc = "idle" /\ \E t \in Txs : Validate(t)
    \/ PreDispatch
    \/ pc = "pre_dispatched" /\ \E r \in DispatchResults(tx.call,
                [bf |-> bestFinalized, pi |-> parasInfo, il |-> inboundLanes]),
          post \in PostInfos :
          Dispatch(r, post)
    \/ PostDispatch
    \/ Finish

Spec == Init /\ [][Next]_vars

\* ----------------------------------------------- post_dispatch on any input

\* post_dispatch is given any pre-dispatch data, dispatch result and storage,
\* as run_post_dispatch of the tests does.
HookNumbers == 0..MaxNumber
HookTrackers == {None} \cup {Some(n) : n \in HookNumbers}
HookCallTypes ==
    {Delivery(MessagesState(n)) : n \in HookNumbers}
    \cup {ParachainFinalityAndDelivery(ExpectedParachainState(p), MessagesState(n)) :
            p \in HookNumbers, n \in HookNumbers}
    \cup {AllFinalityAndDelivery(ExpectedRelayChainState(r), ExpectedParachainState(p),
                                 MessagesState(n)) :
            r \in HookNumbers, p \in HookNumbers, n \in HookNumbers}

InitHook ==
    /\ bestFinalized \in HookTrackers
    /\ parasInfo \in [ParaIds -> HookTrackers]
    /\ parasInfo[TestParachain + 1] = None
    /\ inboundLanes \in [Lanes -> HookNumbers]
    /\ inboundLanes[OtherLaneId] = 0
    /\ rewards = [a \in Relayers \X Lanes |-> 0]
    /\ pc = "dispatched"
    /\ tx \in {Transaction(s, OtherCall) : s \in Signers}
    /\ validity = Ok(ValidTransactionDefault)
    /\ pre \in {NotRun, Ok(None)} \cup {Ok(Some(PreDispatchData(tx.who, ct))) : ct \in HookCallTypes}
    /\ result \in {Ok(<<>>), Err("DispatchError")}
    /\ post_info \in PostInfos
    /\ before = NoSnapshot
    /\ regs = <<>>
    /\ txs = 1

NextHook == PostDispatch

SpecHook == InitHook /\ [][NextHook]_vars

\* ------------------------------------------- validate and pre_dispatch alone

\* Calls of every shape: each call of the bridge pallets on its own, every
\* batch of up to three of them, and batches of four made of a batch of the
\* three-call shape and one more call.
ParseCalls ==
    NestedCalls
    \cup {BatchAll(<<>>)}
    \cup {BatchAll(<<a>>) : a \in NestedCalls}
    \cup {BatchAll(<<a, b>>) : a \in NestedCalls, b \in NestedCalls}
    \cup {BatchAll(<<a, b, c>>) : a \in NestedCalls, b \in NestedCalls, c \in NestedCalls}
    \cup {BatchAll(b.calls \o <<c>>) : b \in ThreeCallBatches, c \in NestedCalls}

ParseTxs == {Transaction(s, call) : s \in Signers, call \in ParseCalls}

\* a finality tracker is not initialized, or at header 1; the lane has
\* delivered nothing, or message 1
ParseTrackers == {None, Some(1)}

InitParse ==
    /\ bestFinalized \in ParseTrackers
    /\ parasInfo \in [ParaIds -> ParseTrackers]
    /\ parasInfo[TestParachain + 1] = None
    /\ inboundLanes \in [Lanes -> {0, 1}]
    /\ inboundLanes[OtherLaneId] = 0
    /\ rewards = [a \in Relayers \X Lanes |-> 0]
    /\ pc = "idle"
    /\ tx = NoTx
    /\ validity = Ok(ValidTransactionDefault)
    /\ pre = Ok(None)
    /\ result = Ok(<<>>)
    /\ post_info = PostDispatchInfo(None)
    /\ before = NoSnapshot
    /\ regs = <<>>
    /\ txs = 0

\* validate, then pre_dispatch on the same storage
NextParse ==
    \/ pc = "idle" /\ \E t \in ParseTxs : Validate(t)
    \/ PreDispatch

SpecParse == InitParse /\ [][NextParse]_vars

\* ------------------------------------- pre_dispatch and a storage that moves

\* initialize_environment of the tests: the best relay header, the head of
\* the configured parachain and the last delivered nonce of the configured
\* lane are written to storage.
InitializeEnvironment(best_relay_header, parachain_head_at, best_delivered_message) ==
    /\ pc = "pre_dispatched"
    /\ bestFinalized' = Some(best_relay_header)
    /\ parasInfo' = [parasInfo EXCEPT ![TestParachain] = Some(parachain_head_at)]
    /\ inboundLanes' = [inboundLanes EXCEPT ![TestLaneId] = best_delivered_message]
    /\ UNCHANGED <<rewards, pc, tx, validity, pre, result, post_info, before,
                   regs, txs>>

\* a call of one of the refunded shapes is classified, and the storage is
\* then set to other values
NextEnv ==
    \/ pc = "idle" /\ \E t \in Txs : Validate(t)
    \/ PreDispatch
    \/ \E r \in HookNumbers, p \in HookNumbers, m \in HookNumbers :
          InitializeEnvironment(r, p, m)

SpecEnv == InitParse /\ [][NextEnv]_vars

\* ------------------------------------------------- one call, sent repeatedly

\* The pipeline is done with the transaction and a transaction with the same
\* call, signed by s, is validated.
Replay(s) ==
    /\ pc \in {"rejected", "done"}
    /\ txs < MaxTxs
    /\ tx' = Transaction(s, tx.call)
    /\ validity' = validate(s.who, tx.call, tx.info, s.len)
    /\ pc' = "validated"
    /\ txs' = txs + 1
    /\ pre' = Ok(None)
    /\ result' = Ok(<<>>)
    /\ post_info' = PostDispatchInfo(None)
    /\ before' = NoSnapshot
    /\ UNCHANGED <<bestFinalized, parasInfo, inboundLanes, rewards, regs>>

NextReplay ==
    \/ pc = "idle" /\ \E t \in Txs : Validate(t)
    \/ PreDispatch
    \/ pc = "pre_dispatched" /\ \E r \in DispatchResults(tx.call,
                [bf |-> bestFinalized, pi |-> parasInfo, il |-> inboundLanes]),
          post \in PostInfos :
          Dispatch(r, post)
    \/ PostDispatch
    \/ \E s \in Signers : Replay(s)

SpecReplay == Init /\ [][NextReplay]_vars

\* ------------------------------------- validated in the pool, included later

\* Between the validate of a transaction in the pool and its pre_dispatch in
\* a block, the pallets dispatch the call of another transaction.
OtherTransaction(r) ==
    /\ pc = "validated"
    /\ bestFinalized' = r.st.bf
    /\ parasInfo' = r.st.pi
    /\ inboundLanes' = r.st.il
    /\ UNCHANGED <<rewards, pc, tx, validity, pre, result, post_info, before,
                   regs, txs>>

\* the calls of the other transactions: each brings one header, one
\* parachain head or messages
OtherTransactionCalls ==
    {submit_relay_header_call(n) : n \in Numbers}
    \cup {submit_parachain_head_call(n) : n \in Numbers}
    \cup DeliveryCalls

NextPool ==
    \/ pc = "idle" /\ \E t \in Txs : Validate(t)
    \/ pc = "validated" /\ \E c \in OtherTransactionCalls :
          \E r \in DispatchResults(c,
                [bf |-> bestFinalized, pi |-> parasInfo, il |-> inboundLanes]) :
             OtherTransaction(r)
    \/ PreDispatch

SpecPool == Init /\ [][NextPool]_vars

\* ------------------------------------------------ post_dispatch, run twice

\* post_dispatch is run once more with the same arguments, on the storage
\* the first run has left.
PostDispatchAgain ==
    /\ pc = "done"
    /\ LET calls == post_dispatch(PreArgument(pre), tx.info, post_info, tx.len, result)
       IN /\ rewards' = register_all(rewards, calls)
          /\ regs' = regs \o [i \in 1..Len(calls) |->
                        [lane |-> calls[i].lane, relayer |-> calls[i].relayer,
                         reward |-> calls[i].reward,
                         tx |-> txs, len |-> tx.len, tip |-> tx.tip]]
    /\ pc' = IF IsErr(post_dispatch_return(PreArgument(pre), tx.info, post_info,
                                         tx.len, result))
             THEN "failed" ELSE "done twice"
    /\ UNCHANGED <<bestFinalized, parasInfo, inboundLanes, tx, validity, pre,
                   result, post_info, before, txs>>

NextTwice ==
    \/ PostDispatch
    \/ PostDispatchAgain

SpecTwice == InitHook /\ [][NextTwice]_vars

\* --------------------------------------------------------------- properties

\* the register_relayer_reward calls made for the transaction in the pipeline
TxRegs == {i \in 1..Len(regs) : regs[i].tx = txs}

\* pre_dispatch returned the data of a bridge transaction
Classified == pre.tag = "Ok" /\ pre.val # None
CapturedType == Unwrap(pre.val).call_type

\* the numbers the call of the transaction claims
ClaimedRelay == tx.call.calls[1].number
ClaimedPara ==
    IF Len(tx.call.calls) = 3 THEN tx.call.calls[2].at_relay_block
    ELSE tx.call.calls[1].at_relay_block

\* a tracker that was at `was` has moved forward to n
MovedForwardTo(was, now, n) ==
    /\ now = Some(n)
    /\ was = None \/ Unwrap(was) < n

\* C1: a reward is registered for a transaction only if its own dispatch
\* advanced the bridge: the last delivered nonce of the lane is greater after
\* the dispatch than before it, and for the batches the parachain tracker (for
\* the batch of three also the relay chain tracker) has moved forward to the
\* number the call claims.
C1_RewardOnlyForProgress ==
    (pc = "done" /\ TxRegs # {}) =>
        /\ tx.call \in DeliveryCalls \cup TwoCallBatches \cup ThreeCallBatches
        /\ inboundLanes[TestLaneId] > before.nonce
        /\ tx.call \in TwoCallBatches \cup ThreeCallBatches =>
              MovedForwardTo(before.para, parasInfo[TestParachain], ClaimedPara)
        /\ tx.call \in ThreeCallBatches =>
              MovedForwardTo(before.relay, bestFinalized, ClaimedRelay)

C1_Witness ==
    /\ pc = "done"
    /\ TxRegs # {}
    /\ tx.call \in ThreeCallBatches
    /\ txs = 2

\* what the call claimed is what the trackers hold after the dispatch, and
\* the lane has got further than it was before the dispatch
ExpectationsMet ==
    /\ tx.call \in ThreeCallBatches => bestFinalized = Some(ClaimedRelay)
    /\ tx.call \in TwoCallBatches \cup ThreeCallBatches =>
          parasInfo[TestParachain] = Some(ClaimedPara)
    /\ inboundLanes[TestLaneId] # before.nonce

\* C2: for a classified transaction whose dispatch succeeded and whose
\* expectations are all met, post_dispatch makes exactly one
\* register_relayer_reward call, for the signer on the configured lane, of
\* compute_fee(info, post_info, len, 0); the ledger holds it.
C2_OneRewardOfZeroTipFee ==
    (pc = "done" /\ Classified /\ result.tag = "Ok" /\ ExpectationsMet) =>
        /\ Cardinality(TxRegs) = 1
        /\ \A i \in TxRegs :
              /\ regs[i].lane = TestLaneId
              /\ regs[i].relayer = tx.who
              /\ regs[i].reward = compute_fee(tx.info, post_info, tx.len, 0)
              /\ rewards[<<tx.who, TestLaneId>>] >= regs[i].reward

C2_Witness ==
    /\ pc = "done"
    /\ Classified
    /\ result.tag = "Ok"
    /\ ExpectationsMet
    /\ tx.who = "relayer1"
    /\ tx.call \in TwoCallBatches
    /\ Cardinality(TxRegs) = 1

\* C3: the reward does not depend on the declared tip: any two rewards
\* registered for transactions of the same length (all have the same dispatch
\* info and post-dispatch info) are the same amount, whatever the tips.
C3_RewardIndependentOfTip ==
    \A i \in 1..Len(regs), j \in 1..Len(regs) :
        regs[i].len = regs[j].len => regs[i].reward = regs[j].reward

C3_Witness ==
    \E i \in 1..Len(regs), j \in 1..Len(regs) :
        /\ regs[i].len = regs[j].len
        /\ regs[i].tip # regs[j].tip
        /\ regs[i].reward = regs[j].reward

\* what pre_dispatch captured is what the trackers hold, and the lane is not
\* where pre_dispatch saw it
CapturedExpectationsMet ==
    /\ CapturedType.variant = "AllFinalityAndDelivery" =>
          bestFinalized = Some(CapturedType.relay.best_block_number)
    /\ CapturedType.variant \in {"AllFinalityAndDelivery", "ParachainFinalityAndDelivery"} =>
          parasInfo[TestParachain] = Some(CapturedType.para.at_relay_block_number)
    /\ inboundLanes[TestLaneId] # CapturedType.msgs.best_nonce

\* post_dispatch registers nothing and writes nothing
PostDispatchIsNoop ==
    UNCHANGED <<rewards, regs, bestFinalized, parasInfo, inboundLanes>>

\* C4: whatever the call type captured and whatever the trackers hold, a
\* post_dispatch of a failed dispatch registers no reward and changes no
\* storage.
C4_FailedDispatchIsNoop ==
    [][(pc = "dispatched" /\ Classified /\ IsErr(result)) => PostDispatchIsNoop]_vars

C4_Witness ==
    /\ pc = "done"
    /\ Classified
    /\ IsErr(result)
    /\ CapturedType.variant = "AllFinalityAndDelivery"
    /\ CapturedExpectationsMet
    /\ regs = <<>>

\* C5: post_dispatch of an AllFinalityAndDelivery transaction registers no
\* reward and changes no storage when the relay chain tracker is not at the
\* captured expected number; and pre_dispatch rejects a batch of three whose
\* relay header number is not ahead of the tracked best.
C5_RelayChainNotUpdated ==
    [][/\ (/\ pc = "dispatched"
           /\ Classified
           /\ CapturedType.variant = "AllFinalityAndDelivery"
           /\ bestFinalized # Some(CapturedType.relay.best_block_number))
          => PostDispatchIsNoop
       /\ (/\ pc = "validated"
           /\ tx.call \in ThreeCallBatches
           /\ bestFinalized # None
           /\ ClaimedRelay <= Unwrap(bestFinalized))
          => (pc' = "rejected" /\ pre' = Err(Stale))]_vars

C5_Witness ==
    /\ pc = "done"
    /\ tx.call \in ThreeCallBatches
    /\ result.tag = "Ok"
    /\ bestFinalized # Some(ClaimedRelay)
    /\ parasInfo[TestParachain] = Some(ClaimedPara)
    /\ inboundLanes[TestLaneId] # before.nonce
    /\ TxRegs = {}

\* C6: post_dispatch of an AllFinalityAndDelivery or a
\* ParachainFinalityAndDelivery transaction registers no reward and changes no
\* storage when the tracker of the configured parachain is not at the captured
\* expected number.
C6_ParachainNotUpdated ==
    [][(/\ pc = "dispatched"
        /\ Classified
        /\ CapturedType.variant \in
              {"AllFinalityAndDelivery", "ParachainFinalityAndDelivery"}
        /\ parasInfo[TestParachain] # Some(CapturedType.para.at_relay_block_number))
       => PostDispatchIsNoop]_vars

C6_Witness ==
    /\ pc = "done"
    /\ tx.call \in ThreeCallBatches
    /\ result.tag = "Ok"
    /\ bestFinalized = Some(ClaimedRelay)
    /\ parasInfo[TestParachain] # Some(ClaimedPara)
    /\ inboundLanes[TestLaneId] # before.nonce
    /\ TxRegs = {}

\* C7: post_dispatch of a classified transaction, of any of the three call
\* types, registers no reward and changes no storage when the last delivered
\* nonce of the lane is the one captured before the dispatch.
C7_NoMessagesDelivered ==
    [][(/\ pc = "dispatched"
        /\ Classified
        /\ inboundLanes[TestLaneId] = CapturedType.msgs.best_nonce)
       => PostDispatchIsNoop]_vars

C7_Witness ==
    /\ pc = "done"
    /\ tx.call \in TwoCallBatches
    /\ result.tag = "Ok"
    /\ parasInfo[TestParachain] = Some(ClaimedPara)
    /\ inboundLanes[TestLaneId] = before.nonce
    /\ TxRegs = {}

\* a nested call of the batch is not ahead of the trackers at snap
StaleRelay(call, snap) ==
    \E i \in 1..Len(call.calls) :
        /\ call.calls[i].kind = "submit_finality_proof"
        /\ snap.relay # None
        /\ call.calls[i].number <= Unwrap(snap.relay)
StalePara(call, snap) ==
    \E i \in 1..Len(call.calls) :
        /\ call.calls[i].kind = "submit_parachain_heads"
        /\ snap.para # None
        /\ call.calls[i].at_relay_block <= Unwrap(snap.para)
StaleMessages(call, snap) ==
    \E i \in 1..Len(call.calls) :
        /\ call.calls[i].kind = "receive_messages_proof"
        /\ call.calls[i].nonces_end <= snap.nonce
AnyStale(call, snap) ==
    StaleRelay(call, snap) \/ StalePara(call, snap) \/ StaleMessages(call, snap)

\* the trackers as they are
Trackers ==
    [relay |-> bestFinalized, para |-> parasInfo[TestParachain],
     nonce |-> inboundLanes[TestLaneId]]

\* C8: for a batch of the three-call or of the two-call shape with a stale
\* nested call, validate and pre_dispatch both return
\* Invalid(Stale), nothing is captured, the transaction gets no further than
\* pre_dispatch and no reward is registered for it.
C8_StaleBatchRejected ==
    (tx.call \in TwoCallBatches \cup ThreeCallBatches) =>
        /\ (pc \in {"validated", "rejected"} /\ AnyStale(tx.call, Trackers)) =>
              /\ validity = Err(Stale)
              /\ pc = "rejected" => pre = Err(Stale)
              /\ TxRegs = {}
        /\ pc = "pre_dispatched" => ~AnyStale(tx.call, Trackers)
        /\ pc \in {"dispatched", "done"} => ~AnyStale(tx.call, before)

C8_Witness ==
    /\ pc = "rejected"
    /\ tx.call \in ThreeCallBatches
    /\ ~StaleRelay(tx.call, Trackers)
    /\ ~StalePara(tx.call, Trackers)
    /\ StaleMessages(tx.call, Trackers)
    /\ validity = Err(Stale)
    /\ pre = Err(Stale)

\* C9: when pre_dispatch captured nothing, post_dispatch registers no reward
\* and changes no storage, whatever the dispatch did.
C9_UnrecognizedNeverRefunded ==
    [][(pc = "dispatched" /\ pre = Ok(None)) => PostDispatchIsNoop]_vars

C9_Witness ==
    /\ pc = "done"
    /\ pre = Ok(None)
    /\ tx.call = BatchAll(<<message_delivery_call(MaxNumber)>>)
    /\ result.tag = "Ok"
    /\ inboundLanes[TestLaneId] > before.nonce
    /\ TxRegs = {}

\* the last delivered nonce of the lane when pre_dispatch ran
PreDispatchNonce ==
    IF pc = "pre_dispatched" THEN inboundLanes[TestLaneId] ELSE before.nonce

\* C10: pre_dispatch returns an error for a call of one of the three shapes
\* only if the call is stale, and otherwise returns the call type of the shape,
\* with the relay and parachain numbers of the call, the last delivered nonce
\* the lane had at pre_dispatch (not a nonce of the call), and the signer.
C10_PreDispatchData ==
    /\ (pc = "rejected" /\ tx.call \in DeliveryCalls \cup TwoCallBatches \cup ThreeCallBatches)
          => (IsBatchAll(tx.call) /\ AnyStale(tx.call, Trackers))
    /\ (pc \in {"pre_dispatched", "dispatched", "done"}) =>
        /\ tx.call \in ThreeCallBatches =>
              pre = Ok(Some([relayer |-> tx.who,
                             call_type |->
                                [variant |-> "AllFinalityAndDelivery",
                                 relay |-> [best_block_number |-> ClaimedRelay],
                                 para |-> [at_relay_block_number |-> ClaimedPara],
                                 msgs |-> [best_nonce |-> PreDispatchNonce]]]))
        /\ tx.call \in TwoCallBatches =>
              pre = Ok(Some([relayer |-> tx.who,
                             call_type |->
                                [variant |-> "ParachainFinalityAndDelivery",
                                 para |-> [at_relay_block_number |-> ClaimedPara],
                                 msgs |-> [best_nonce |-> PreDispatchNonce]]]))
        /\ tx.call \in DeliveryCalls =>
              pre = Ok(Some([relayer |-> tx.who,
                             call_type |->
                                [variant |-> "Delivery",
                                 msgs |-> [best_nonce |-> PreDispatchNonce]]]))

C10_Witness ==
    /\ pc = "pre_dispatched"
    /\ tx.call = all_finality_and_delivery_batch_call(MaxNumber, MaxNumber, MaxNumber)
    /\ tx.who = "relayer1"
    /\ inboundLanes[TestLaneId] = 1
    /\ Classified
    /\ CapturedType.msgs.best_nonce = 1


\* the calls of the three shapes the extension refunds
RecognizedCalls == DeliveryCalls \cup TwoCallBatches \cup ThreeCallBatches

\* pre_dispatch has returned
PreDispatchRan == pc \in {"pre_dispatched", "rejected"}

\* a submit_parachain_heads of the batch names more than one parachain
NamesSeveralParachains(call) ==
    /\ IsBatchAll(call)
    /\ \E i \in 1..Len(call.calls) :
          /\ call.calls[i].kind = "submit_parachain_heads"
          /\ Len(call.calls[i].parachains) > 1

\* C11: pre_dispatch never returns the data of a bridge transaction for a
\* batch with a submit_parachain_heads that names more than one parachain,
\* whichever parachain it names first; it returns Ok(None) unless a nested
\* call is rejected as obsolete.
C11_SeveralParachainsNotClassified ==
    (PreDispatchRan /\ NamesSeveralParachains(tx.call)) =>
        /\ ~Classified
        /\ ~IsErr(validity) => pre = Ok(None)

C11_Witness ==
    /\ pc = "pre_dispatched"
    /\ tx.call = BatchAll(<<SubmitParachainHeads(MaxNumber,
                                <<TestParachain, TestParachain + 1>>),
                            message_delivery_call(MaxNumber)>>)
    /\ pre = Ok(None)

\* C12: for every call that is not of one of the three shapes, pre_dispatch
\* never returns the data of a bridge transaction, and returns Ok(None), not
\* an error, when validate accepts the call.
C12_OtherShapesNotClassified ==
    (PreDispatchRan /\ tx.call \notin RecognizedCalls) =>
        /\ ~Classified
        /\ ~IsErr(validity) => (pc = "pre_dispatched" /\ pre = Ok(None))

C12_Witness ==
    /\ pc = "pre_dispatched"
    /\ tx.call = BatchAll(<<OtherCall, submit_parachain_head_call(MaxNumber),
                            message_delivery_call(MaxNumber)>>)
    /\ pre = Ok(None)

\* what pre_dispatch's classification of the call of the transaction gives
\* on the storage as it is now
ClassifiedNow ==
    IF parse_call_type(tx.call) = None THEN None
    ELSE Some(PreDispatchData(tx.who, Unwrap(parse_call_type(tx.call))))

\* two classifications are the same but for the messages state they hold
SameButMessagesState(a, b) ==
    \/ a = None /\ b = None
    \/ /\ a # None
       /\ b # None
       /\ [Unwrap(a) EXCEPT !.call_type.msgs = Unwrap(b).call_type.msgs] = Unwrap(b)

\* C13, as stated: the classification of a call is the same on any two
\* storage states: what pre_dispatch returned for the call is what its
\* classification gives on the storage as it is at any later time.
C13_ClassificationIgnoresStorage ==
    pc = "pre_dispatched" => pre.val = ClassifiedNow

\* C13, amended: on any two storage states the classification of a call gives
\* the same variant (or none), the same relayer and the same expected relay
\* chain and parachain numbers; the messages state it holds is the last
\* delivered nonce of the lane in the storage it is computed on.
C13_OnlyMessagesStateReadsStorage ==
    pc = "pre_dispatched" =>
        /\ SameButMessagesState(pre.val, ClassifiedNow)
        /\ ClassifiedNow # None =>
              Unwrap(ClassifiedNow).call_type.msgs.best_nonce = inboundLanes[TestLaneId]

C13_Witness ==
    /\ pc = "pre_dispatched"
    /\ tx.call \in ThreeCallBatches
    /\ Classified
    /\ bestFinalized # Some(ClaimedRelay)
    /\ CapturedType.msgs.best_nonce # inboundLanes[TestLaneId]
    /\ pre.val # ClassifiedNow
    /\ SameButMessagesState(pre.val, ClassifiedNow)

\* C14: post_dispatch returns Ok(()) whether it was given no `pre`, an empty
\* one or the data of any call type, whatever the dispatch result and the
\* trackers: the transaction is never failed by it.
C14_PostDispatchReturnsOk ==
    /\ pc # "failed"
    /\ pc = "dispatched" =>
          post_dispatch_return(PreArgument(pre), tx.info, post_info, tx.len, result)
              = Ok(<<>>)

C14_Witness ==
    /\ pc = "done"
    /\ pre = NotRun
    /\ IsErr(result)
    /\ regs = <<>>

\* the relay header, the parachain head and the messages the call brings are
\* all ahead of the trackers at snap
AllAhead(call, snap) ==
    ~AnyStale(BatchAll(IF IsBatchAll(call) THEN call.calls ELSE <<call>>), snap)

\* C15: validate returns Ok(ValidTransaction::default()) for a call of each of
\* the three shapes whose relay header number, parachain relay block number
\* and message nonce are all ahead of what the pallets hold, and pre_dispatch
\* then returns no error.
C15_NonObsoleteAccepted ==
    (/\ pc \in {"validated", "pre_dispatched"}
     /\ tx.call \in RecognizedCalls
     /\ AllAhead(tx.call, Trackers)) =>
        /\ validity = Ok(ValidTransactionDefault)
        /\ pc = "pre_dispatched" => Classified

C15_Witness ==
    /\ pc = "validated"
    /\ tx.call = all_finality_and_delivery_batch_call(MaxNumber, MaxNumber, MaxNumber)
    /\ Trackers = [relay |-> Some(1), para |-> Some(1), nonce |-> 1]
    /\ validity = Ok(ValidTransactionDefault)

RECURSIVE RegisteredTotal(_, _)
\* the sum of the first n register_relayer_reward calls that are for account a
RegisteredTotal(a, n) ==
    IF n = 0 THEN 0
    ELSE RegisteredTotal(a, n - 1)
         + (IF <<regs[n].relayer, regs[n].lane>> = a THEN regs[n].reward ELSE 0)

\* C16: the rewards ledger is written through register_relayer_reward only,
\* at most once for a transaction and not before its post_dispatch: the ledger
\* is the sum of the calls made, none of them is for a transaction that
\* validate or pre_dispatch has handled and post_dispatch has not, and no
\* transaction has two.
C16_LedgerWrittenOnceByPostDispatch ==
    /\ \A a \in Relayers \X Lanes : rewards[a] = RegisteredTotal(a, Len(regs))
    /\ pc \in {"validated", "pre_dispatched", "rejected", "dispatched"} => TxRegs = {}
    /\ \A i \in 1..Len(regs), j \in 1..Len(regs) : regs[i].tx = regs[j].tx => i = j

C16_Witness ==
    /\ pc = "done"
    /\ txs = MaxTxs
    /\ Len(regs) = MaxTxs
    /\ tx.call \in ThreeCallBatches
    /\ rewards[<<tx.who, TestLaneId>>] > 0

\* C17: validate and pre_dispatch, whether they accept, reject or classify,
\* leave the relay chain tracker, the parachain tracker, the lanes and the
\* rewards ledger as they are, and register nothing; post_dispatch leaves the
\* three trackers as they are.
C17_HooksLeaveStorageAlone ==
    [][/\ pc \in {"idle", "validated"} =>
             UNCHANGED <<bestFinalized, parasInfo, inboundLanes, rewards, regs>>
       /\ pc = "dispatched" =>
             UNCHANGED <<bestFinalized, parasInfo, inboundLanes>>]_vars

C17_Witness ==
    /\ pc = "pre_dispatched"
    /\ txs = MaxTxs
    /\ Classified
    /\ tx.call \in TwoCallBatches
    /\ regs = <<>>
    /\ \A a \in Relayers \X Lanes : rewards[a] = 0
    /\ inboundLanes[TestLaneId] = 1

\* C18: on the same storage pre_dispatch returns an error exactly when
\* validate does, and the same error, for a batch of any size and content and
\* for a call that is no batch: a batch the classifier does not recognize is
\* rejected, not passed on as Ok(None), when one of its nested calls is
\* obsolete.
C18_PreDispatchValidatesFirst ==
    PreDispatchRan =>
        /\ IsErr(pre) <=> IsErr(validity)
        /\ IsErr(validity) => pre = validity
        /\ pc = "rejected" <=> IsErr(pre)

C18_Witness ==
    /\ pc = "rejected"
    /\ tx.call = BatchAll(<<OtherCall, message_delivery_call(1)>>)
    /\ inboundLanes[TestLaneId] = 1
    /\ validity = Err(Stale)
    /\ pre = Err(Stale)

\* the tracker holds a number greater than n
Past(tracker, n) == tracker # None /\ Unwrap(tracker) > n

\* C19: after a successful dispatch post_dispatch registers no reward when
\* the relay chain tracker (for AllFinalityAndDelivery) or the parachain
\* tracker (for both batch types) is past the captured expected number, as it
\* does when the tracker is behind it; and with the trackers at the expected
\* numbers it registers the reward whenever the last delivered nonce is not
\* the captured one, by however much.
C19_ExactTrackersAnyNonceChange ==
    (pc = "done" /\ Classified /\ result.tag = "Ok") =>
        /\ (/\ CapturedType.variant = "AllFinalityAndDelivery"
            /\ Past(bestFinalized, CapturedType.relay.best_block_number))
              => regs = <<>>
        /\ (/\ CapturedType.variant \in
                  {"AllFinalityAndDelivery", "ParachainFinalityAndDelivery"}
            /\ Past(parasInfo[TestParachain], CapturedType.para.at_relay_block_number))
              => regs = <<>>
        /\ CapturedExpectationsMet => Len(regs) = 1

C19_Witness ==
    /\ pc = "done"
    /\ Classified
    /\ result.tag = "Ok"
    /\ CapturedType.variant = "AllFinalityAndDelivery"
    /\ bestFinalized = Some(CapturedType.relay.best_block_number)
    /\ Past(parasInfo[TestParachain], CapturedType.para.at_relay_block_number)
    /\ inboundLanes[TestLaneId] > CapturedType.msgs.best_nonce
    /\ regs = <<>>

\* a reward has been registered for an earlier transaction of the run
EarlierRewarded == \E i \in 1..Len(regs) : regs[i].tx < txs

\* C20, as stated: of the transactions of a run that all carry the same call,
\* at most one is rewarded.
C20_AtMostOneRewarded ==
    Len(regs) <= 1

\* C20, amended: when a call is sent again after a transaction with it was
\* rewarded, a batch is rejected as stale by validate and by pre_dispatch and
\* gets no reward; a delivery on its own is rewarded only if its own dispatch
\* delivers messages the earlier ones left undelivered, so that there are
\* never more rewards than messages delivered.
C20_ReplayRewardedOnlyForNewMessages ==
    /\ (EarlierRewarded /\ IsBatchAll(tx.call) /\ pc # "idle") =>
          /\ validity = Err(Stale)
          /\ pc \in {"validated", "rejected"}
          /\ pc = "rejected" => pre = Err(Stale)
          /\ TxRegs = {}
    /\ (EarlierRewarded /\ tx.call \in DeliveryCalls /\ pc = "done") =>
          /\ CapturedType.msgs.best_nonce = before.nonce
          /\ before.nonce > 0
          /\ TxRegs # {} => inboundLanes[TestLaneId] > before.nonce
          /\ before.nonce >= tx.call.nonces_end => TxRegs = {}
    /\ Len(regs) <= inboundLanes[TestLaneId]

C20_Witness ==
    /\ pc = "rejected"
    /\ txs = MaxTxs
    /\ EarlierRewarded
    /\ tx.call \in ThreeCallBatches
    /\ pre = Err(Stale)
    /\ Len(regs) = 1

\* C21: pre_dispatch decides on the storage it runs on, not on the one
\* validate ran on: whatever validate returned in the pool, a batch of the
\* two-call or three-call shape is rejected by pre_dispatch, as stale, exactly
\* when one of its nested calls is not ahead of the trackers as the
\* transactions dispatched since have left them; and the messages state
\* captured for a call of any of the three shapes is the last delivered nonce
\* they have left.
C21_PreDispatchReadsCurrentStorage ==
    PreDispatchRan =>
        /\ tx.call \in TwoCallBatches \cup ThreeCallBatches =>
              /\ pc = "rejected" <=> AnyStale(tx.call, Trackers)
              /\ pc = "rejected" => pre = Err(Stale)
        /\ (pc = "pre_dispatched" /\ tx.call \in RecognizedCalls) =>
              /\ Classified
              /\ CapturedType.msgs.best_nonce = inboundLanes[TestLaneId]

C21_Witness ==
    /\ pc = "rejected"
    /\ tx.call \in ThreeCallBatches
    /\ validity = Ok(ValidTransactionDefault)
    /\ pre = Err(Stale)
    /\ StaleRelay(tx.call, Trackers)
    /\ ~StaleMessages(tx.call, Trackers)

RECURSIVE ZeroTipFees(_, _)
\* the sum of compute_fee(info, post_info, len, 0) over those of the first
\* n rewarded transactions that relayer has signed
ZeroTipFees(relayer, n) ==
    IF n = 0 THEN 0
    ELSE ZeroTipFees(relayer, n - 1)
         + (IF regs[n].relayer = relayer
            THEN compute_fee(DispatchInfo(InfoWeight), PostDispatchInfo(None),
                             regs[n].len, 0)
            ELSE 0)

\* the ledger holds, for each relayer on the configured lane, the zero-tip
\* fees of the rewarded transactions of the relayer, and nothing elsewhere
LedgerIsSumOfFees ==
    \A relayer \in Relayers :
        /\ rewards[<<relayer, TestLaneId>>] = ZeroTipFees(relayer, Len(regs))
        /\ rewards[<<relayer, OtherLaneId>>] = 0

\* C22: after every step the ledger entry of a relayer on the configured
\* lane is the sum of the zero-tip fees of the relayer's rewarded
\* transactions; a post_dispatch changes no entry but that of the signer of
\* its transaction on the configured lane; and no entry ever decreases.
C22_LedgerIsSumOfOwnFees ==
    [][/\ LedgerIsSumOfFees'
       /\ pc = "dispatched" =>
             \A a \in Relayers \X Lanes :
                 a # <<tx.who, TestLaneId>> => rewards'[a] = rewards[a]
       /\ \A a \in Relayers \X Lanes : rewards'[a] >= rewards[a]]_vars

C22_Witness ==
    /\ pc = "done"
    /\ txs = MaxTxs
    /\ TxRegs # {}
    /\ Len(regs) = MaxTxs
    /\ \A i \in 1..Len(regs) : regs[i].relayer = "relayer1"
    /\ rewards[<<"relayer1", TestLaneId>>]
          = MaxTxs * compute_fee(tx.info, post_info, tx.len, 0)
    /\ rewards[<<"relayer0", TestLaneId>>] = 0

\* C23: post_dispatch run twice with the same data of a bridge transaction,
\* a successful dispatch result and the trackers meeting every expectation
\* registers the reward twice: the entry of the relayer holds twice
\* compute_fee(info, post_info, len, 0); run twice on anything else it
\* registers nothing.
C23_SecondRunRegistersAgain ==
    pc = "done twice" =>
        IF Classified /\ result.tag = "Ok" /\ CapturedExpectationsMet
        THEN /\ Len(regs) = 2
             /\ regs[1] = regs[2]
             /\ rewards[<<tx.who, TestLaneId>>]
                   = 2 * compute_fee(tx.info, post_info, tx.len, 0)
        ELSE /\ regs = <<>>
             /\ \A a \in Relayers \X Lanes : rewards[a] = 0

C23_Witness ==
    /\ pc = "done twice"
    /\ Classified
    /\ CapturedType.variant = "AllFinalityAndDelivery"
    /\ result.tag = "Ok"
    /\ CapturedExpectationsMet
    /\ Len(regs) = 2
    /\ rewards[<<tx.who, TestLaneId>>] = 2 * compute_fee(tx.info, post_info, tx.len, 0)

\* the lane is not where pre_dispatch saw it
LaneMoved == inboundLanes[TestLaneId] # CapturedType.msgs.best_nonce

\* the tracker of the configured parachain is at the captured number
ParachainAtCaptured ==
    parasInfo[TestParachain] = Some(CapturedType.para.at_relay_block_number)

\* post_dispatch registers a reward
PostDispatchRegisters == Len(regs') = Len(regs) + 1

\* C24: post_dispatch reads the trackers its captured call type names and no
\* other. A Delivery transaction is rewarded exactly when the dispatch
\* succeeded and the lane moved, whatever the relay chain and parachain
\* trackers hold, uninitialized included; a ParachainFinalityAndDelivery
\* transaction exactly when, besides, the parachain tracker is at the captured
\* number, whatever the relay chain tracker holds; and an uninitialized relay
\* chain or parachain tracker forfeits the reward of a call type that names it.
C24_OnlyNamedTrackersConsulted ==
    [][(pc = "dispatched" /\ Classified) =>
          /\ CapturedType.variant = "Delivery" =>
                (PostDispatchRegisters <=> (result.tag = "Ok" /\ LaneMoved))
          /\ CapturedType.variant = "ParachainFinalityAndDelivery" =>
                (PostDispatchRegisters
                    <=> (result.tag = "Ok" /\ ParachainAtCaptured /\ LaneMoved))
          /\ (CapturedType.variant = "AllFinalityAndDelivery" /\ bestFinalized = None)
                => PostDispatchIsNoop
          /\ (/\ CapturedType.variant \in
                    {"AllFinalityAndDelivery", "ParachainFinalityAndDelivery"}
              /\ parasInfo[TestParachain] = None)
                => PostDispatchIsNoop]_vars

C24_Witness ==
    /\ pc = "done"
    /\ Classified
    /\ CapturedType.variant = "Delivery"
    /\ bestFinalized = None
    /\ parasInfo[TestParachain] = None
    /\ result.tag = "Ok"
    /\ Len(regs) = 1

\* pre_dispatch has returned Ok and the transaction went on
PreDispatchPassed == pc \in {"pre_dispatched", "dispatched", "done"}

\* a message delivery on its own, none of whose nonces is new to the lane as
\* pre_dispatch saw it
ObsoleteStandaloneDelivery ==
    /\ tx.call \in DeliveryCalls
    /\ tx.call.nonces_end <= CapturedType.msgs.best_nonce

\* C25: the obsolete-transaction guard runs on the nested calls of a batch
\* only. For a call that is not a batch, whatever the trackers hold, validate
\* returns the default validity and pre_dispatch returns Ok; a message
\* delivery on its own is captured as Delivery with the nonce of the lane,
\* already delivered or not, and one whose nonces are all delivered has no
\* reward registered by post_dispatch.
C25_GuardOnlyInsideBatch ==
    (pc # "idle" /\ ~IsBatchAll(tx.call)) =>
        /\ validity = Ok(ValidTransactionDefault)
        /\ pc # "rejected"
        /\ PreDispatchPassed => pre.tag = "Ok"
        /\ (PreDispatchPassed /\ tx.call \in DeliveryCalls) =>
              /\ Classified
              /\ CapturedType.variant = "Delivery"
        /\ (pc = "done" /\ tx.call \in DeliveryCalls /\ ObsoleteStandaloneDelivery) =>
              TxRegs = {}

C25_Witness ==
    /\ pc = "done"
    /\ ObsoleteStandaloneDelivery
    /\ validity = Ok(ValidTransactionDefault)
    /\ Classified
    /\ CapturedType.variant = "Delivery"
    /\ result.tag = "Ok"
    /\ TxRegs = {}

====
